---- MODULE Spec2Model ----
(***************************************************************************)
(* Ground booking module: the REST handlers of                             *)
(* src/controllers/bookingController.js over the Booking collection.       *)
(*                                                                         *)
(* Conventions.                                                            *)
(*  - A string is a sequence: a time string is the sequence of its         *)
(*    character codes ("09:30" is <<48,57,58,51,48>>), so that MongoDB's   *)
(*    $lt / $gt on strings is the lexicographic order the store applies;   *)
(*    notes are a sequence of text pieces, so that concatenation is \o.    *)
(*  - A JavaScript falsy value (undefined, null, "", 0) of a request field *)
(*    is the empty string "", the empty sequence <<>> or the number 0.     *)
(*  - An instant is a number of milliseconds; the server's zone is UTC, so *)
(*    that a date-only string parses to the local midnight of that day.    *)
(*  - A handler is split at the awaits that separate its read of the       *)
(*    Booking collection from its write; lookups of the Ground, User and   *)
(*    Payment collections, which no handler of this module writes, are     *)
(*    taken together with the read.  A handler ends by sending its         *)
(*    response (pc = "reply"); the client takes it in a step of its own.   *)
(*  - Booking.find returns its documents in the store's natural order,     *)
(*    which the query does not fix: conflictingBookings[0] is any of them. *)
(***************************************************************************)
EXTENDS Integers, Sequences, FiniteSets, TLC

VARIABLES bookings, now, pc, req, res, screen, calls

vars == <<bookings, now, pc, req, res, screen, calls>>

(***************************************************************************)
(* Bounds of the model.                                                    *)
(***************************************************************************)
\* Documents the Booking collection may hold.
MaxBookings == 2
\* Ticks of the clock (60 minutes each) after the initial instant.
MaxTicks == 2
\* Cancellation lines one booking's notes may collect.
MaxCancels == 1
\* Requests of the customer's booking screen in flight together.
MaxCalls == 2

(***************************************************************************)
(* Time: dates, wall-clock strings, instants.                              *)
(***************************************************************************)
MsPerMinute == 60 * 1000
MsPerDay == 24 * 60 * MsPerMinute

\* new Date("YYYY-MM-DD") for the d-th day of the model's calendar.
DateMs(d) == d * MsPerDay

\* `${HH.padStart(2, "0")}:${MM.padStart(2, "0")}` as character codes.
TimeStr(h, m) == <<48 + (h \div 10), 48 + (h % 10), 58, 48 + (m \div 10), 48 + (m % 10)>>

\* Whether a string has the shape "dd:dd" with hours below 24, minutes below 60.
IsHHMM(t) ==
    /\ Len(t) = 5
    /\ t[3] = 58
    /\ \A i \in {1, 2, 4, 5} : t[i] \in 48..57
    /\ (t[1] - 48) * 10 + (t[2] - 48) < 24
    /\ (t[4] - 48) * 10 + (t[5] - 48) < 60

\* Minute of the day a well-formed "HH:MM" names.
MinuteOfDay(t) == ((t[1] - 48) * 10 + (t[2] - 48)) * 60 + (t[4] - 48) * 10 + (t[5] - 48)

\* Variant: an order that compares the strings from their last character.
RECURSIVE StrLessFromRight(_, _)
StrLessFromRight(a, b) ==
    IF b = <<>> THEN FALSE
    ELSE IF a = <<>> THEN TRUE
    ELSE IF a[Len(a)] # b[Len(b)] THEN a[Len(a)] < b[Len(b)]
    ELSE StrLessFromRight(SubSeq(a, 1, Len(a) - 1), SubSeq(b, 1, Len(b) - 1))

\* Binary string order, the order of $lt and $gt on two strings.
RECURSIVE StrLess(_, _)
StrLess(a, b) ==
    IF b = <<>> THEN FALSE
    ELSE IF a = <<>> THEN TRUE
    ELSE IF a[1] # b[1] THEN a[1] < b[1]
    ELSE StrLess(Tail(a), Tail(b))

\* new Date(`${date}T${time}`): an instant, or -1 for an Invalid Date.
bookingDateTime(dateMs, time) ==
    IF IsHHMM(time) THEN dateMs + MinuteOfDay(time) * MsPerMinute ELSE -1

(***************************************************************************)
(* The collections the handlers only read.                                 *)
(***************************************************************************)
Users == {"u1", "u2"}
Grounds == {"g1", "g2"}
Payments == {"p1", "p2"}

firstName(u) == IF u = "u1" THEN "Ann" ELSE "Bob"
lastName(u) == IF u = "u1" THEN "Lee" ELSE "Ray"
paymentStatus(p) == IF p = "p1" THEN "success" ELSE "failed"

\* The values of Booking.status.
Statuses == {"pending", "confirmed", "completed", "cancelled"}

(***************************************************************************)
(* Requests in flight and responses.                                       *)
(***************************************************************************)
Ids == 1..Len(bookings)

NoReq == [op |-> "none"]
NoRes == [op |-> "none"]

\* res.status(code).json({message, ...data})
Json(code, message, data) == [code |-> code, message |-> message, data |-> data]

\* The handler goes on past the checks that may answer the request.
Proceed == Json(0, "", <<>>)

Idle(c) == pc[c] = "idle"

\* Handler `op` answers request `body` of client c with `json` and ends.
Send(c, op, body, json) ==
    /\ pc' = [pc EXCEPT ![c] = "reply"]
    /\ req' = [req EXCEPT ![c] = NoReq]
    /\ res' = [res EXCEPT ![c] = [op |-> op, body |-> body, code |-> json.code,
                                  message |-> json.message, data |-> json.data]]
    /\ UNCHANGED <<screen, calls>>

\* Handler `op` awaits its write, holding `context` in its local variables.
Await(c, op, context) ==
    /\ pc' = [pc EXCEPT ![c] = op]
    /\ req' = [req EXCEPT ![c] = context]
    /\ UNCHANGED <<res, screen, calls>>

\* The client takes the response.
Reply(c) ==
    /\ pc[c] = "reply"
    /\ pc' = [pc EXCEPT ![c] = "idle"]
    /\ res' = [res EXCEPT ![c] = NoRes]
    /\ UNCHANGED <<bookings, now, req, screen, calls>>

(***************************************************************************)
(* The overlap query of createBooking and checkGroundAvailability.         *)
(***************************************************************************)
\* bookingDate: {$gte: setHours(0,0,0,0), $lt: setHours(23,59,59,999)}.
InDateWindow(stored, dateMs) ==
    /\ stored >= dateMs
    /\ stored < dateMs + MsPerDay - 1

\* Variant: the slot as the request gives it, with no default.
SlotAsGiven(groundSlot) == groundSlot

\* groundSlot || 1
SlotOrDefault(groundSlot) == IF groundSlot = 0 THEN 1 ELSE groundSlot

\* Variant: the filter with closed bounds ($lte, $gte), which takes touching
\* intervals for overlapping ones.
ConflictsWithClosed(b, q) ==
    /\ b.groundId = q.groundId
    /\ b.groundSlot = SlotOrDefault(q.groundSlot)
    /\ InDateWindow(b.bookingDate, DateMs(q.bookingDate))
    /\ b.status \notin {"cancelled"}
    /\ ~StrLess(q.endTime, b.startTime)
    /\ ~StrLess(b.endTime, q.startTime)

\* Variant: the filter without its status clause.
ConflictsWithAnyStatus(b, q) ==
    /\ b.groundId = q.groundId
    /\ b.groundSlot = SlotOrDefault(q.groundSlot)
    /\ InDateWindow(b.bookingDate, DateMs(q.bookingDate))
    /\ StrLess(b.startTime, q.endTime)
    /\ StrLess(q.startTime, b.endTime)

\* One document against the filter of Booking.find.
ConflictsWith(b, q) ==
    /\ b.groundId = q.groundId
    /\ b.groundSlot = SlotOrDefault(q.groundSlot)
    /\ InDateWindow(b.bookingDate, DateMs(q.bookingDate))
    /\ b.status \notin {"cancelled"}
    /\ StrLess(b.startTime, q.endTime)
    /\ StrLess(q.startTime, b.endTime)

\* The ids of the documents Booking.find returns.
conflictingBookings(store, q) ==
    {i \in 1..Len(store) : ConflictsWith(store[i], q)}

\* populate("customerId", "firstName lastName"): null when no user has the id.
Populated(customerId) == customerId \in Users

\* `${customerId.firstName} ${customerId.lastName}`
customerName(customerId) == <<firstName(customerId), " ", lastName(customerId)>>

(***************************************************************************)
(* createBooking: POST /api/bookings.                                      *)
(***************************************************************************)
\* Creates that passed the overlap query and have not written yet.
InFlightCreates == Cardinality({c \in DOMAIN pc : pc[c] = "createBooking"})

\* Variant: the test of the required fields without the amount.
MissingRequiredButAmount(body) ==
    \/ body.customerId = ""
    \/ body.groundId = ""
    \/ body.bookingDate = 0
    \/ body.startTime = <<>>
    \/ body.endTime = <<>>

\* Variant: the test of the required fields with an amount that is missing
\* only when it is negative.
MissingRequiredOrNegative(body) ==
    \/ body.customerId = ""
    \/ body.groundId = ""
    \/ body.bookingDate = 0
    \/ body.startTime = <<>>
    \/ body.endTime = <<>>
    \/ body.amount < 0

\* !customerId || !groundId || !bookingDate || !startTime || !endTime || !amount
MissingRequired(body) ==
    \/ body.customerId = ""
    \/ body.groundId = ""
    \/ body.bookingDate = 0
    \/ body.startTime = <<>>
    \/ body.endTime = <<>>
    \/ body.amount = 0

suggestions ==
    <<"Try booking for a different time on the same date",
      "Select a different date",
      "Choose a different ground if available">>

\* conflictDetails of the 409 response, for conflictingBookings[0] = store[k].
conflictDetails(store, k) ==
    [existingBooking |->
        [startTime |-> store[k].startTime,
         endTime |-> store[k].endTime,
         bookingType |-> store[k].bookingType,
         bookedBy |-> customerName(store[k].customerId)],
     suggestions |-> suggestions]

\* The answer to a request the overlap query finds in conflict, store[k] being
\* conflictingBookings[0]: reading the name of a customer that populate left
\* null throws, and the catch block answers 500.
conflictResponse(store, k) ==
    IF Populated(store[k].customerId)
    THEN Json(409, "This time slot is already booked by another customer",
              conflictDetails(store, k))
    ELSE Json(500, "Error creating booking", <<>>)

\* Variant: the checks without the lookup of the customer.
createBookingChecksNoCustomer(store, body) ==
    IF MissingRequired(body)
    THEN {Json(400, "Missing required fields", <<>>)}
    ELSE IF body.groundId \notin Grounds
    THEN {Json(404, "Ground not found", <<>>)}
    ELSE IF conflictingBookings(store, body) # {}
    THEN {conflictResponse(store, k) : k \in conflictingBookings(store, body)}
    ELSE {Proceed}

\* What the handler may answer up to and including the overlap query; Proceed
\* when it goes on to the clock checks and the write.
createBookingChecks(store, body) ==
    IF MissingRequired(body)
    THEN {Json(400, "Missing required fields", <<>>)}
    ELSE IF body.groundId \notin Grounds
    THEN {Json(404, "Ground not found", <<>>)}
    ELSE IF body.customerId \notin Users
    THEN {Json(404, "Customer not found", <<>>)}
    ELSE IF conflictingBookings(store, body) # {}
    THEN {conflictResponse(store, k) : k \in conflictingBookings(store, body)}
    ELSE {Proceed}

\* Variant: a document that takes the status the request carries.
NewBookingAsRequested(body) ==
    [customerId |-> body.customerId,
     groundId |-> body.groundId,
     groundSlot |-> SlotOrDefault(body.groundSlot),
     bookingDate |-> DateMs(body.bookingDate),
     startTime |-> body.startTime,
     endTime |-> body.endTime,
     bookingType |-> IF body.bookingType = "" THEN "practice" ELSE body.bookingType,
     specialRequirements |-> body.specialRequirements,
     notes |-> body.notes,
     paymentId |-> "",
     status |-> IF body.status = "" THEN "pending" ELSE body.status]

\* The document Booking.create persists. An absent specialRequirements is
\* the empty list, which `specialRequirements || []` stores as the empty list.
NewBooking(body) ==
    [customerId |-> body.customerId,
     groundId |-> body.groundId,
     groundSlot |-> SlotOrDefault(body.groundSlot),
     bookingDate |-> DateMs(body.bookingDate),
     startTime |-> body.startTime,
     endTime |-> body.endTime,
     bookingType |-> IF body.bookingType = "" THEN "practice" ELSE body.bookingType,
     specialRequirements |-> body.specialRequirements,
     notes |-> body.notes,
     paymentId |-> "",
     status |-> "pending"]

\* The handler up to and including the overlap query. A request the query
\* finds in conflict is answered here: nothing the handler does afterwards
\* reads or writes the store.
createBookingQuery(c, body) ==
    /\ Idle(c)
    /\ UNCHANGED <<bookings, now>>
    /\ \E json \in createBookingChecks(bookings, body) :
          IF json = Proceed
          THEN /\ Len(bookings) + InFlightCreates < MaxBookings
               /\ Await(c, "createBooking", [op |-> "createBooking", body |-> body])
          ELSE Send(c, "createBooking", body, json)

\* bookingDateTime <= now, false for an Invalid Date.
InThePast(dt, clock) == dt # -1 /\ dt <= clock

\* Variant: a lead time that must exceed the hour.
TooSoonOrJustInTime(dt, clock) == dt # -1 /\ dt <= clock + 60 * 60 * 1000

\* bookingDateTime < oneHourFromNow, false for an Invalid Date.
TooSoon(dt, clock) == dt # -1 /\ dt < clock + 60 * 60 * 1000

\* What the clock checks answer; Proceed when the handler goes on to the write.
createBookingClock(body, clock) ==
    LET dt == bookingDateTime(DateMs(body.bookingDate), body.startTime)
    IN  IF InThePast(dt, clock)
        THEN Json(400, "Cannot book ground for past dates or times", <<>>)
        ELSE IF TooSoon(dt, clock)
        THEN Json(400, "Ground must be booked at least 1 hour in advance", <<>>)
        ELSE Proceed

\* Variant: an insert that runs the overlap query again and stores nothing
\* when it finds a booking.
createBookingInsertIfFree(store, body) ==
    IF \E i \in 1..Len(store) :
           /\ store[i].groundId = body.groundId
           /\ store[i].groundSlot = SlotOrDefault(body.groundSlot)
           /\ InDateWindow(store[i].bookingDate, DateMs(body.bookingDate))
           /\ store[i].status \notin {"cancelled"}
           /\ StrLess(store[i].startTime, body.endTime)
           /\ StrLess(body.startTime, store[i].endTime)
    THEN store
    ELSE Append(store, NewBooking(body))

\* The store after Booking.create.
createBookingInsert(store, body) == Append(store, NewBooking(body))

\* The rest of the handler: the two checks against the clock, then
\* Booking.create.
createBookingWrite(c) ==
    /\ pc[c] = "createBooking"
    /\ UNCHANGED now
    /\ LET body == req[c].body
           json == createBookingClock(body, now)
       IN  IF json = Proceed
           THEN /\ bookings' = createBookingInsert(bookings, body)
                /\ Send(c, "createBooking", body,
                        Json(201, "Booking created successfully",
                             [id |-> Len(bookings')]))
           ELSE /\ UNCHANGED bookings
                /\ Send(c, "createBooking", body, json)

(***************************************************************************)
(* checkGroundAvailability: GET /api/bookings/check-availability.          *)
(***************************************************************************)
\* One entry of the response's conflicts.
conflictEntry(store, k) ==
    [bookingId |-> k,
     customerName |-> customerName(store[k].customerId),
     startTime |-> store[k].startTime,
     endTime |-> store[k].endTime,
     bookingType |-> store[k].bookingType,
     status |-> store[k].status]

\* The handler's answer. The conflicts are mapped one by one: a conflicting
\* booking whose customer populate left null throws, and the catch block
\* answers 500.
checkGroundAvailabilityResponse(store, query) ==
    LET found == conflictingBookings(store, query)
        isAvailable == found = {}
    IN  IF \/ query.groundId = ""
           \/ query.bookingDate = 0
           \/ query.startTime = <<>>
           \/ query.endTime = <<>>
        THEN Json(400, "Missing required parameters", <<>>)
        ELSE IF ~isAvailable /\ \E k \in found : ~Populated(store[k].customerId)
        THEN Json(500, "Error checking ground availability", <<>>)
        ELSE IF ~isAvailable
        THEN Json(200, "This time slot is already booked",
                  [available |-> FALSE,
                   conflicts |-> {conflictEntry(store, k) : k \in found}])
        ELSE Json(200, "Time slot is available for booking", [available |-> TRUE])

checkGroundAvailability(c, query) ==
    /\ Idle(c)
    /\ UNCHANGED <<bookings, now>>
    /\ Send(c, "checkGroundAvailability", query,
            checkGroundAvailabilityResponse(bookings, query))

(***************************************************************************)
(* updateBooking: PUT /api/bookings/:id.                                   *)
(***************************************************************************)
\* $set of the fields of req.body over the document.
ApplyPatch(b, patch) ==
    [f \in DOMAIN b |-> IF f \in DOMAIN patch THEN patch[f] ELSE b[f]]

\* runValidators: the schema's enum on status.
PatchValid(patch) == "status" \in DOMAIN patch => patch.status \in Statuses

\* Variant: the guard without the test of the status.
updateBookingChecksAnyStatus(store, id) ==
    IF id \notin 1..Len(store)
    THEN Json(404, "Booking not found", <<>>)
    ELSE Proceed

\* What the handler answers on the document it read; Proceed when it goes on
\* to the write.
updateBookingChecks(store, id) ==
    IF id \notin 1..Len(store)
    THEN Json(404, "Booking not found", <<>>)
    ELSE IF store[id].status \in {"completed", "cancelled"}
    THEN Json(400, "Cannot modify completed or cancelled bookings", <<>>)
    ELSE Proceed

\* Booking.findById and the guard on the status it read.
updateBookingRead(c, id, patch) ==
    /\ Idle(c)
    /\ UNCHANGED <<bookings, now>>
    /\ LET body == [id |-> id, patch |-> patch]
           json == updateBookingChecks(bookings, id)
       IN  IF json = Proceed
           THEN Await(c, "updateBooking", [op |-> "updateBooking", body |-> body])
           ELSE Send(c, "updateBooking", body, json)

\* Variant: a write that runs the overlap query on the patched document and
\* answers 409 when another booking is found.
updateBookingWriteIfFree(c) ==
    /\ pc[c] = "updateBooking"
    /\ UNCHANGED now
    /\ LET body == req[c].body
           patched == ApplyPatch(bookings[body.id], body.patch)
           taken == \E i \in 1..Len(bookings) :
                       /\ i # body.id
                       /\ bookings[i].groundId = patched.groundId
                       /\ bookings[i].groundSlot = patched.groundSlot
                       /\ bookings[i].bookingDate = patched.bookingDate
                       /\ bookings[i].status \notin {"cancelled"}
                       /\ StrLess(bookings[i].startTime, patched.endTime)
                       /\ StrLess(patched.startTime, bookings[i].endTime)
       IN  IF ~PatchValid(body.patch)
           THEN /\ UNCHANGED bookings
                /\ Send(c, "updateBooking", body, Json(400, "Validation error", <<>>))
           ELSE IF taken
           THEN /\ UNCHANGED bookings
                /\ Send(c, "updateBooking", body, Json(409, "Time slot taken", <<>>))
           ELSE /\ bookings' = [bookings EXCEPT ![body.id] = patched]
                /\ Send(c, "updateBooking", body,
                        Json(200, "Booking updated successfully", bookings'[body.id]))

\* Booking.findByIdAndUpdate(id, req.body, {new: true, runValidators: true}).
updateBookingWrite(c) ==
    /\ pc[c] = "updateBooking"
    /\ UNCHANGED now
    /\ LET body == req[c].body
       IN  IF PatchValid(body.patch)
           THEN /\ bookings' = [bookings EXCEPT ![body.id] = ApplyPatch(@, body.patch)]
                /\ Send(c, "updateBooking", body,
                        Json(200, "Booking updated successfully", bookings'[body.id]))
           ELSE /\ UNCHANGED bookings
                /\ Send(c, "updateBooking", body, Json(400, "Validation error", <<>>))

(***************************************************************************)
(* cancelBooking: PUT /api/bookings/:id/cancel.                            *)
(***************************************************************************)
\* `Cancellation reason: ${reason}`
cancellationLine(reason) == <<"Cancellation reason: ", reason>>

\* Variant: notes that are the cancellation reason alone.
cancelledNotesOverwritten(notes, reason) == cancellationLine(reason)

\* notes ? `${notes}\nCancellation reason: ${reason}` : `Cancellation reason: ${reason}`
cancelledNotes(notes, reason) ==
    IF notes # <<>>
    THEN notes \o <<"\n">> \o cancellationLine(reason)
    ELSE cancellationLine(reason)

\* Cancellation lines in a booking's notes.
CancelCount(notes) ==
    Cardinality({i \in 1..Len(notes) : notes[i] = "Cancellation reason: "})

\* bookingDate.toISOString().split('T')[0]: the day of a stored date.
IsoDay(stored) == (stored \div MsPerDay) * MsPerDay

\* Variant: a cutoff that takes in the booking that starts in exactly 2 hours.
TooCloseOrJustInTime(b, clock) ==
    LET dt == bookingDateTime(IsoDay(b.bookingDate), b.startTime)
    IN  dt # -1 /\ dt - clock <= 2 * 60 * 60 * 1000

\* hoursUntilBooking < 2, on milliseconds; false for an Invalid Date.
TooCloseToStart(b, clock) ==
    LET dt == bookingDateTime(IsoDay(b.bookingDate), b.startTime)
    IN  dt # -1 /\ dt - clock < 2 * 60 * 60 * 1000

\* Variant: the guards without the one on a booking already cancelled.
cancelBookingChecksAgain(store, id, clock) ==
    IF id \notin 1..Len(store)
    THEN Json(404, "Booking not found", <<>>)
    ELSE IF TooCloseToStart(store[id], clock) /\ store[id].status = "confirmed"
    THEN Json(400, "Cannot cancel booking less than 2 hours before start time", <<>>)
    ELSE Proceed

\* Variant: the cutoff applied whatever the status.
cancelBookingChecksAnyStatus(store, id, clock) ==
    IF id \notin 1..Len(store)
    THEN Json(404, "Booking not found", <<>>)
    ELSE IF store[id].status = "cancelled"
    THEN Json(400, "Booking is already cancelled", <<>>)
    ELSE IF TooCloseToStart(store[id], clock)
    THEN Json(400, "Cannot cancel booking less than 2 hours before start time", <<>>)
    ELSE Proceed

\* What the handler answers on the document it read; Proceed when it goes on
\* to the save.
cancelBookingChecks(store, id, clock) ==
    IF id \notin 1..Len(store)
    THEN Json(404, "Booking not found", <<>>)
    ELSE IF store[id].status = "cancelled"
    THEN Json(400, "Booking is already cancelled", <<>>)
    ELSE IF TooCloseToStart(store[id], clock) /\ store[id].status = "confirmed"
    THEN Json(400, "Cannot cancel booking less than 2 hours before start time", <<>>)
    ELSE Proceed

\* Booking.findById and the guards on the document it read.
cancelBookingRead(c, id, reason) ==
    /\ Idle(c)
    /\ UNCHANGED <<bookings, now>>
    /\ LET body == [id |-> id, reason |-> reason]
           json == cancelBookingChecks(bookings, id, now)
       IN  IF json = Proceed
           THEN /\ CancelCount(bookings[id].notes) < MaxCancels
                /\ Await(c, "cancelBooking",
                         [op |-> "cancelBooking", body |-> body,
                          notes |-> bookings[id].notes])
           ELSE Send(c, "cancelBooking", body, json)

\* Variant: a cancel that deletes the document.
cancelBookingSaveDeleting(c) ==
    /\ pc[c] = "cancelBooking"
    /\ UNCHANGED now
    /\ LET body == req[c].body
           notes == cancelledNotes(req[c].notes, body.reason)
       IN  /\ bookings' = [i \in 1..(Len(bookings) - 1) |->
                              IF i < body.id THEN bookings[i] ELSE bookings[i + 1]]
           /\ Send(c, "cancelBooking", body,
                   Json(200, "Booking cancelled successfully",
                        [status |-> "cancelled", notes |-> notes]))

\* booking.save(): $set of status and notes, both changed on the document read.
cancelBookingSave(c) ==
    /\ pc[c] = "cancelBooking"
    /\ UNCHANGED now
    /\ LET body == req[c].body
           notes == cancelledNotes(req[c].notes, body.reason)
       IN  /\ bookings' = [bookings EXCEPT ![body.id].status = "cancelled",
                                           ![body.id].notes = notes]
           /\ Send(c, "cancelBooking", body,
                   Json(200, "Booking cancelled successfully",
                        [status |-> "cancelled", notes |-> notes]))

(***************************************************************************)
(* confirmBooking: PUT /api/bookings/:id/confirm.                          *)
(***************************************************************************)
\* Variant: the checks without the one on the payment's status.
confirmBookingChecksAnyPayment(store, id, paymentId) ==
    IF id \notin 1..Len(store)
    THEN Json(404, "Booking not found", <<>>)
    ELSE IF paymentId # "" /\ paymentId \notin Payments
    THEN Json(404, "Payment not found", <<>>)
    ELSE Proceed

\* Variant: the checks with a guard that turns down a booking already
\* confirmed.
confirmBookingChecksOnce(store, id, paymentId) ==
    IF id \notin 1..Len(store)
    THEN Json(404, "Booking not found", <<>>)
    ELSE IF store[id].status = "confirmed"
    THEN Json(400, "Booking is already confirmed", <<>>)
    ELSE IF paymentId # "" /\ paymentId \notin Payments
    THEN Json(404, "Payment not found", <<>>)
    ELSE IF paymentId # "" /\ paymentStatus(paymentId) # "success"
    THEN Json(400, "Payment is not successful", <<>>)
    ELSE Proceed

\* What the handler answers on the booking and the payment it read; Proceed
\* when it goes on to the save.
confirmBookingChecks(store, id, paymentId) ==
    IF id \notin 1..Len(store)
    THEN Json(404, "Booking not found", <<>>)
    ELSE IF paymentId # "" /\ paymentId \notin Payments
    THEN Json(404, "Payment not found", <<>>)
    ELSE IF paymentId # "" /\ paymentStatus(paymentId) # "success"
    THEN Json(400, "Payment is not successful", <<>>)
    ELSE Proceed

\* Booking.findById, then Payment.findById when a paymentId is given.
confirmBookingRead(c, id, paymentId) ==
    /\ Idle(c)
    /\ UNCHANGED <<bookings, now>>
    /\ LET body == [id |-> id, paymentId |-> paymentId]
           json == confirmBookingChecks(bookings, id, paymentId)
       IN  IF json = Proceed
           THEN Await(c, "confirmBooking",
                      [op |-> "confirmBooking", body |-> body,
                       status |-> bookings[id].status,
                       paymentId |-> bookings[id].paymentId])
           ELSE Send(c, "confirmBooking", body, json)

\* Variant: a save that assigns req.body.paymentId whether or not it is given.
confirmBookingSavedAlways(b, read, paymentId) ==
    [b EXCEPT
        !.status = IF read.status # "confirmed" THEN "confirmed" ELSE @,
        !.paymentId = IF paymentId # read.paymentId THEN paymentId ELSE @]

\* booking.save(): $set of the paths whose value differs from the document
\* read (a path assigned the value it already had is not modified).
confirmBookingSaved(b, read, paymentId) ==
    [b EXCEPT
        !.status = IF read.status # "confirmed" THEN "confirmed" ELSE @,
        !.paymentId = IF paymentId # "" /\ paymentId # read.paymentId
                      THEN paymentId ELSE @]

confirmBookingSave(c) ==
    /\ pc[c] = "confirmBooking"
    /\ UNCHANGED now
    /\ LET body == req[c].body
           saved == confirmBookingSaved(bookings[body.id], req[c], body.paymentId)
       IN  /\ bookings' = [bookings EXCEPT ![body.id] = saved]
           /\ Send(c, "confirmBooking", body,
                   Json(200, "Booking confirmed successfully",
                        [status |-> saved.status, paymentId |-> saved.paymentId]))

(***************************************************************************)
(* getBookings: GET /api/bookings, and getUserBookings:                    *)
(* GET /api/bookings/user/:userId.  A query parameter that is absent is "" *)
(* (<<>> for page and limit, which arrive as strings of digits).           *)
(***************************************************************************)
\* parseInt of a string of decimal digits.
RECURSIVE parseInt(_)
parseInt(digits) ==
    IF digits = <<>>
    THEN 0
    ELSE parseInt(SubSeq(digits, 1, Len(digits) - 1)) * 10 + (digits[Len(digits)] - 48)

\* const { page = 1 } = req.query; parseInt(page)
pageOf(query) == IF query.page = <<>> THEN 1 ELSE parseInt(query.page)

\* const { limit = 10 } = req.query; parseInt(limit)
limitOf(query) == IF query.limit = <<>> THEN 10 ELSE parseInt(query.limit)

\* Variant: a skip that counts the pages from 0.
skipFromZero(query) == pageOf(query) * limitOf(query)

\* (parseInt(page) - 1) * parseInt(limit)
skipOf(query) == (pageOf(query) - 1) * limitOf(query)

\* The filter of getBookings: each condition is set when its parameter is
\* given, the date range when both ends are.
listFilter(query) ==
    [status |-> query.status, type |-> query.type, customerId |-> query.customerId,
     groundId |-> query.groundId,
     startDate |-> IF query.startDate # 0 /\ query.endDate # 0 THEN query.startDate ELSE 0,
     endDate |-> IF query.startDate # 0 /\ query.endDate # 0 THEN query.endDate ELSE 0]

\* Variant: the filter of getUserBookings with the query's customerId put over
\* the path parameter.
userFilterFromQuery(userId, query) ==
    [status |-> query.status, type |-> query.type,
     customerId |-> IF query.customerId # "" THEN query.customerId ELSE userId,
     groundId |-> "", startDate |-> 0, endDate |-> 0]

\* The filter of getUserBookings: { customerId: userId }, then status and type.
userFilter(userId, query) ==
    [status |-> query.status, type |-> query.type, customerId |-> userId,
     groundId |-> "", startDate |-> 0, endDate |-> 0]

\* A document matches the filter. The handlers never store a path `type`
\* (createBooking stores bookingType): with strictQuery Mongoose drops the
\* condition, without it no document matches it.
Matches(b, filter, strictQuery) ==
    /\ filter.status # "" => b.status = filter.status
    /\ filter.type # "" => strictQuery
    /\ filter.customerId # "" => b.customerId = filter.customerId
    /\ filter.groundId # "" => b.groundId = filter.groundId
    /\ filter.startDate # 0
          => /\ b.bookingDate >= DateMs(filter.startDate)
             /\ b.bookingDate <= DateMs(filter.endDate)

\* Booking.find(filter).sort({ createdAt: -1 }): the ids among 1..n of the
\* documents that match, the last created first.
RECURSIVE findSorted(_, _, _, _)
findSorted(store, filter, strictQuery, n) ==
    IF n = 0
    THEN <<>>
    ELSE IF Matches(store[n], filter, strictQuery)
    THEN <<n>> \o findSorted(store, filter, strictQuery, n - 1)
    ELSE findSorted(store, filter, strictQuery, n - 1)

\* .skip(skip).limit(limit): a limit of 0 is no limit.
skipLimit(list, skip, limit) ==
    LET last == IF limit = 0 \/ skip + limit > Len(list) THEN Len(list) ELSE skip + limit
    IN  SubSeq(list, skip + 1, last)

\* populate: a reference that names no document is left null.
populate(b, paths) ==
    [f \in DOMAIN b |->
        IF f = "customerId" /\ f \in paths /\ b[f] \notin Users THEN ""
        ELSE IF f = "groundId" /\ f \in paths /\ b[f] \notin Grounds THEN ""
        ELSE IF f = "paymentId" /\ f \in paths /\ b[f] \notin Payments THEN ""
        ELSE b[f]]

\* The documents of the answer, each with its _id.
documents(store, ids, paths) ==
    [k \in 1..Len(ids) |-> [id |-> ids[k], booking |-> populate(store[ids[k]], paths)]]

\* JSON.stringify of Infinity and of NaN.
JsonNull == -1

\* Math.ceil(total / limit): Infinity or NaN when the limit is 0.
pagesOf(total, limit) == IF limit = 0 THEN JsonNull ELSE (total + limit - 1) \div limit

\* pagination: { page, limit, total, pages }
pagination(query, total) ==
    [page |-> pageOf(query), limit |-> limitOf(query), total |-> total,
     pages |-> pagesOf(total, limitOf(query))]

\* Booking.find(filter)...skip(skip).limit(limit): the query is rejected when
\* the skip is negative, and the catch block answers 500.
listFind(c, op, filter, paths, query, failure) ==
    /\ Idle(c)
    /\ UNCHANGED <<bookings, now>>
    /\ \E strictQuery \in BOOLEAN :
          IF skipOf(query) < 0
          THEN Send(c, op, query, Json(500, failure, <<>>))
          ELSE Await(c, op,
                     [op |-> op, body |-> query, filter |-> filter,
                      strictQuery |-> strictQuery,
                      data |-> documents(bookings,
                                  skipLimit(findSorted(bookings, filter, strictQuery,
                                                       Len(bookings)),
                                            skipOf(query), limitOf(query)),
                                  paths)])

\* Booking.countDocuments(filter), and the answer.
listCount(c, op) ==
    /\ pc[c] = op
    /\ UNCHANGED <<bookings, now>>
    /\ LET total == Len(findSorted(bookings, req[c].filter, req[c].strictQuery,
                                   Len(bookings)))
       IN  Send(c, op, req[c].body,
                Json(200, "", [data |-> req[c].data,
                               pagination |-> pagination(req[c].body, total)]))

getBookingsFind(c, query) ==
    listFind(c, "getBookings", listFilter(query), {"customerId", "groundId", "paymentId"},
             query, "Error fetching bookings")

getBookingsCount(c) == listCount(c, "getBookings")

getUserBookingsFind(c, userId, query) ==
    listFind(c, "getUserBookings", userFilter(userId, query), {"groundId", "paymentId"}, [query EXCEPT !.userId = userId],
             "Error fetching user bookings")

getUserBookingsCount(c) == listCount(c, "getUserBookings")

(***************************************************************************)
(* The clock.                                                              *)
(***************************************************************************)
\* 08:00 of day 1.
Clock0 == DateMs(1) + 8 * 60 * MsPerMinute
TickMs == 60 * MsPerMinute

Tick ==
    /\ now < Clock0 + MaxTicks * TickMs
    /\ now' = now + TickMs
    /\ UNCHANGED <<bookings, pc, req, res, screen, calls>>

(***************************************************************************)
(* Requests.                                                               *)
(***************************************************************************)
Clients == {"c1", "c2"}

T0900 == TimeStr(9, 0)
T0930 == TimeStr(9, 30)
T1000 == TimeStr(10, 0)
T1030 == TimeStr(10, 30)
T1100 == TimeStr(11, 0)

\* A POST body; bookingType, specialRequirements and notes are left out of it,
\* and it carries no status.
Body(customerId, groundId, groundSlot, bookingDate, startTime, endTime, amount) ==
    [customerId |-> customerId, groundId |-> groundId, groundSlot |-> groundSlot,
     bookingDate |-> bookingDate, startTime |-> startTime, endTime |-> endTime,
     bookingType |-> "", specialRequirements |-> <<>>, notes |-> <<>>,
     amount |-> amount, status |-> ""]

\* The body the admin form posts: formData carries a status and the
\* requirements ticked.
FormBody(body, specialRequirements, status) ==
    [body EXCEPT !.specialRequirements = specialRequirements, !.status = status]

\* The query string of check-availability.
Query(groundId, groundSlot, bookingDate, startTime, endTime) ==
    [groundId |-> groundId, groundSlot |-> groundSlot, bookingDate |-> bookingDate,
     startTime |-> startTime, endTime |-> endTime]

\* The query string that asks for the interval of a POST body.
QueryOf(body) ==
    Query(body.groundId, body.groundSlot, body.bookingDate, body.startTime, body.endTime)

(***************************************************************************)
(* The customer's booking screen (the GroundBooking component): its state  *)
(* in `screen`, its requests to check-availability in flight in `calls`.   *)
(* Each call holds what its continuation closed over.                      *)
(***************************************************************************)
\* availabilityMessage: its sign, its text, and the times it names.
Message(sign, text, startTime, endTime) ==
    [sign |-> sign, text |-> text, startTime |-> startTime, endTime |-> endTime]

NoMessage == Message("", "", <<>>, <<>>)

\* No navigation yet.
NoPayment ==
    [customerId |-> "", groundId |-> "", bookingDate |-> 0, startTime |-> <<>>,
     endTime |-> <<>>]

\* The component's state after its first render, with what isLoggedIn() and
\* getCurrentUserId() answer in this browser.
GroundBooking(loggedIn, userId) ==
    [loggedIn |-> loggedIn, userId |-> userId,
     selectedGround |-> "", showBookingForm |-> FALSE,
     bookingDate |-> 0, startTime |-> <<>>, duration |-> 120,
     debounceTimer |-> FALSE,
     availabilityChecking |-> FALSE, availabilityMessage |-> NoMessage,
     bookingLoading |-> FALSE, error |-> "",
     page |-> "booking", payment |-> NoPayment]

\* startTime plus duration minutes, as getHours and getMinutes padded to two
\* digits; the hours wrap at midnight.
endTimeString(startTime, duration) ==
    LET minutes == MinuteOfDay(startTime) + duration
    IN  TimeStr((minutes \div 60) % 24, minutes % 60)

\* new URLSearchParams({groundId, groundSlot: 1, bookingDate, startTime, endTime})
params(sc) ==
    Query(sc.selectedGround, 1, sc.bookingDate, sc.startTime,
          endTimeString(sc.startTime, sc.duration))

\* selectedGround && bookingDate && startTime && duration
Complete(sc) ==
    /\ sc.selectedGround # ""
    /\ sc.bookingDate # 0
    /\ sc.startTime # <<>>
    /\ sc.duration # 0

\* The effect on [selectedGround, bookingDate, startTime, duration], run after
\* a render that changed one of them: the timer of the render before is
\* cleared, and a new one is set or the message is cleared.
debounceEffect(sc) ==
    IF Complete(sc)
    THEN [sc EXCEPT !.debounceTimer = TRUE]
    ELSE [sc EXCEPT !.debounceTimer = FALSE, !.availabilityMessage = NoMessage]

\* A fetch that has not been answered.
Fetch(kind, query, userId) ==
    [kind |-> kind, query |-> query, userId |-> userId, stage |-> "sent",
     success |-> FALSE, available |-> FALSE, message |-> "",
     conflictStart |-> <<>>, conflictEnd |-> <<>>]

\* handleBookGround(ground)
handleBookGround(ground) ==
    /\ screen.page = "booking"
    /\ screen' = LET shown == [screen EXCEPT !.selectedGround = ground,
                                              !.showBookingForm = TRUE,
                                              !.error = ""]
                 IN  IF ground # screen.selectedGround
                     THEN debounceEffect(shown)
                     ELSE shown
    /\ UNCHANGED <<bookings, now, pc, req, res, calls>>

\* handleBookingInputChange on one of the inputs the availability depends on;
\* the value is one the input did not hold.
handleBookingInputChange(name, value) ==
    /\ screen.page = "booking"
    /\ screen.showBookingForm
    /\ screen[name] # value
    /\ screen' = debounceEffect([screen EXCEPT ![name] = value,
                                               !.availabilityMessage = NoMessage])
    /\ UNCHANGED <<bookings, now, pc, req, res, calls>>

\* The debounce timer fires: checkAvailability() up to its fetch.
checkAvailability ==
    /\ screen.page = "booking"
    /\ screen.debounceTimer
    /\ IF ~Complete(screen)
       THEN /\ screen' = [screen EXCEPT !.debounceTimer = FALSE]
            /\ UNCHANGED calls
       ELSE /\ Cardinality(calls) < MaxCalls
            /\ screen' = [screen EXCEPT !.debounceTimer = FALSE,
                                        !.availabilityChecking = TRUE,
                                        !.availabilityMessage = NoMessage]
            /\ calls' = calls \cup {Fetch("check", params(screen), "")}
    /\ UNCHANGED <<bookings, now, pc, req, res>>

\* The first of the conflicts of an answer.
firstConflict(conflicts) ==
    CHOOSE k \in conflicts : \A other \in conflicts : k.bookingId <= other.bookingId

\* The server answers a call: the JSON of checkGroundAvailability as the
\* screen reads it.
answered(call, json) ==
    LET taken == json.code = 200 /\ ~json.data.available
        first == IF taken /\ json.data.conflicts # {}
                 THEN firstConflict(json.data.conflicts)
                 ELSE [startTime |-> <<>>, endTime |-> <<>>]
    IN  [call EXCEPT !.stage = "answered",
                     !.success = (json.code = 200),
                     !.available = (json.code = 200 /\ json.data.available),
                     !.message = json.message,
                     !.conflictStart = first.startTime,
                     !.conflictEnd = first.endTime]

\* checkGroundAvailability serves a call of the screen, or the fetch fails.
serve(call) ==
    /\ call \in calls
    /\ call.stage = "sent"
    /\ \/ calls' = (calls \ {call})
                      \cup {answered(call,
                                     checkGroundAvailabilityResponse(bookings, call.query))}
       \/ calls' = (calls \ {call}) \cup {[call EXCEPT !.stage = "failed"]}
    /\ UNCHANGED <<bookings, now, pc, req, res, screen>>

\* checkAvailability() from its fetch on: the message, the error, and
\* availabilityChecking in the finally block. After the navigation the
\* component is unmounted and its setters do nothing.
checkAvailabilityDone(call) ==
    /\ call \in calls
    /\ call.kind = "check"
    /\ call.stage \in {"answered", "failed"}
    /\ calls' = calls \ {call}
    /\ screen' =
          IF screen.page # "booking" THEN screen
          ELSE IF call.stage = "failed"
          THEN [screen EXCEPT !.error = "Error checking availability",
                              !.availabilityChecking = FALSE]
          ELSE IF ~call.success
          THEN [screen EXCEPT !.error = "Failed to check availability",
                              !.availabilityChecking = FALSE]
          ELSE IF call.available
          THEN [screen EXCEPT !.availabilityMessage =
                                  Message("ok", "This time slot is available for booking!",
                                          <<>>, <<>>),
                              !.error = "",
                              !.availabilityChecking = FALSE]
          ELSE IF call.conflictStart # <<>>
          THEN [screen EXCEPT !.availabilityMessage =
                                  Message("no", "is already booked",
                                          call.conflictStart, call.conflictEnd),
                              !.error = "",
                              !.availabilityChecking = FALSE]
          ELSE [screen EXCEPT !.availabilityMessage =
                                  Message("no", call.message, <<>>, <<>>),
                              !.error = "",
                              !.availabilityChecking = FALSE]
    /\ UNCHANGED <<bookings, now, pc, req, res>>

\* The submit button is enabled, and the inputs marked required are filled.
CanSubmit(sc) ==
    /\ sc.page = "booking"
    /\ sc.showBookingForm
    /\ sc.selectedGround # ""
    /\ sc.bookingDate # 0
    /\ sc.startTime # <<>>
    /\ sc.duration # 0
    /\ ~sc.bookingLoading
    /\ ~sc.availabilityChecking
    /\ sc.availabilityMessage.sign # "no"

\* handleBookingSubmit up to its fetch.
handleBookingSubmit ==
    /\ CanSubmit(screen)
    /\ IF ~screen.loggedIn \/ screen.userId = ""
       THEN /\ screen' = [screen EXCEPT !.error = "Please log in to book a ground"]
            /\ UNCHANGED calls
       ELSE /\ Cardinality(calls) < MaxCalls
            /\ screen' = [screen EXCEPT !.bookingLoading = TRUE]
            /\ calls' = calls \cup {Fetch("submit", params(screen), screen.userId)}
    /\ UNCHANGED <<bookings, now, pc, req, res>>

\* navigate("/payment", {state: {booking: bookingPayload, ...}})
bookingPayload(call) ==
    [customerId |-> call.userId, groundId |-> call.query.groundId,
     bookingDate |-> call.query.bookingDate, startTime |-> call.query.startTime,
     endTime |-> call.query.endTime]

\* Variant: a submit that goes to the payment page on any answer of the
\* server.
submitOutcomeAnyAnswer(sc, call) ==
    IF call.stage = "failed"
    THEN [sc EXCEPT !.error = "An error occurred while processing your booking. Please try again.",
                    !.bookingLoading = FALSE]
    ELSE [sc EXCEPT !.page = "payment", !.payment = bookingPayload(call),
                    !.showBookingForm = FALSE, !.debounceTimer = FALSE,
                    !.bookingLoading = FALSE]

\* handleBookingSubmit from its fetch on: the error, or the navigation, and
\* bookingLoading in the finally block.
submitOutcome(sc, call) ==
    IF call.stage = "failed"
    THEN [sc EXCEPT !.error = "An error occurred while processing your booking. Please try again.",
                    !.bookingLoading = FALSE]
    ELSE IF ~call.success \/ ~call.available
    THEN [sc EXCEPT !.error = IF call.message # ""
                              THEN call.message
                              ELSE "This time slot is no longer available. Please choose a different time.",
                    !.bookingLoading = FALSE]
    ELSE [sc EXCEPT !.page = "payment", !.payment = bookingPayload(call),
                    !.showBookingForm = FALSE, !.debounceTimer = FALSE,
                    !.bookingLoading = FALSE]

handleBookingSubmitDone(call) ==
    /\ call \in calls
    /\ call.kind = "submit"
    /\ call.stage \in {"answered", "failed"}
    /\ calls' = calls \ {call}
    /\ screen' = submitOutcome(screen, call)
    /\ UNCHANGED <<bookings, now, pc, req, res>>

(***************************************************************************)
(* The system.                                                             *)
(***************************************************************************)
Init ==
    /\ bookings = <<>>
    /\ now = Clock0
    /\ pc = [c \in Clients |-> "idle"]
    /\ req = [c \in Clients |-> NoReq]
    /\ res = [c \in Clients |-> NoRes]
    /\ screen = GroundBooking(FALSE, "")
    /\ calls = {}

\* The requests of `bodies`, `queries`, `patches`, `reasons` and `payments`
\* sent by the clients of `clients`: the steps of each handler, in any order.
Requests(clients, bodies, queries, patches, reasons, payments) ==
    \E c \in clients :
        \/ \E body \in bodies : createBookingQuery(c, body)
        \/ createBookingWrite(c)
        \/ \E query \in queries : checkGroundAvailability(c, query)
        \/ \E id \in 1..MaxBookings, patch \in patches : updateBookingRead(c, id, patch)
        \/ updateBookingWrite(c)
        \/ \E id \in 1..MaxBookings, reason \in reasons : cancelBookingRead(c, id, reason)
        \/ cancelBookingSave(c)
        \/ \E id \in 1..MaxBookings, paymentId \in payments :
              confirmBookingRead(c, id, paymentId)
        \/ confirmBookingSave(c)
        \/ Reply(c)

(***************************************************************************)
(* Spec: one client, its requests one at a time, on four resources         *)
(* (ground, slot, day) that differ from the first in one coordinate each.  *)
(***************************************************************************)
SlotBodies ==
    {Body("u1", "g1", 0, 1, T0930, T1030, 100),
     Body("u1", "g1", 0, 1, T1000, T1100, 100),
     Body("u1", "g1", 0, 1, T0900, T0930, 100),
     Body("u2", "g2", 0, 1, T0930, T1030, 100),
     Body("u2", "g1", 2, 1, T0930, T1030, 100),
     Body("u2", "g1", 0, 2, T0930, T1030, 100)}

\* Requests the handler turns down before it reads the Booking collection.
BadBodies ==
    {Body("u1", "g1", 0, 1, T1000, T1100, 0),
     Body("u1", "g9", 0, 1, T1000, T1100, 100),
     Body("u9", "g1", 0, 1, T1000, T1100, 100)}

SlotQueries ==
    {QueryOf(body) : body \in SlotBodies}
        \cup {Query("g1", 1, 1, T0930, T1030),
              Query("g1", 0, 1, T0900, T1100),
              Query("g1", 0, 1, T1000, <<>>)}

SlotPatches == {[status |-> "confirmed"], [status |-> "archived"]}

Next ==
    \/ Requests({"c1"}, SlotBodies \cup BadBodies, SlotQueries, SlotPatches,
                {"rain"}, {""})
    \/ Tick

Spec == Init /\ [][Next]_vars

(***************************************************************************)
(* AdminSpec: one client, its requests one at a time, on one resource,     *)
(* with the patches the admin screen and the API allow.                    *)
(***************************************************************************)
AdminBodies ==
    {Body("u1", "g1", 0, 1, T0930, T1030, 100),
     Body("u1", "g1", 0, 1, T0900, T0930, 100),
     Body("u1", "g1", 0, 1, T1100, T1000, 100)}

AdminQueries == {Query("g1", 0, 1, T0900, T1100)}

\* handleStatusChange's {status}, handleEditBooking's times, and a customerId
\* that is the id of no user.
AdminPatches ==
    {[status |-> s] : s \in Statuses}
        \cup {[startTime |-> T1000, endTime |-> T1100], [customerId |-> "u9"]}

AdminNext ==
    \/ Requests({"c1"}, AdminBodies \cup {Body("u1", "g1", 0, 1, T0900, T1100, 100)},
                AdminQueries, AdminPatches, {"rain"}, {""})
    \/ Tick

AdminSpec == Init /\ [][AdminNext]_vars

(***************************************************************************)
(* RaceSpec: two clients, their requests interleaved, for two overlapping  *)
(* intervals on one resource.                                              *)
(***************************************************************************)
RaceBodies ==
    {Body("u1", "g1", 0, 1, T0930, T1030, 100),
     Body("u2", "g1", 0, 1, T1000, T1100, 100)}

RaceQueries == {Query("g1", 0, 1, T1000, T1100)}

RacePatches == {[status |-> "confirmed"]}

RaceNext ==
    \/ Requests(Clients, RaceBodies, RaceQueries, RacePatches, {"rain"}, {""})
    \/ Tick

RaceSpec == Init /\ [][RaceNext]_vars

(***************************************************************************)
(* CreateSpec: one client, its requests one at a time; the bodies of the   *)
(* admin form, and the bodies createBooking turns down before its query.   *)
(***************************************************************************)
\* A body with no slot and no requirements that asks for status confirmed, and
\* one with slot 2 and a requirement.
FormBodies ==
    {FormBody(Body("u1", "g1", 0, 1, T0900, T0930, 100), <<>>, "confirmed"),
     FormBody(Body("u2", "g1", 2, 1, T0930, T1030, 100), <<"lights">>, "")}

\* One required field missing in each.
MissingBodies ==
    {Body("", "g1", 0, 1, T1000, T1100, 100),
     Body("u1", "", 0, 1, T1000, T1100, 100),
     Body("u1", "g1", 0, 0, T1000, T1100, 100),
     Body("u1", "g1", 0, 1, <<>>, T1100, 100),
     Body("u1", "g1", 0, 1, T1000, <<>>, 100),
     Body("u1", "g1", 0, 1, T1000, T1100, 0)}

\* A ground, a customer, or both, that no document has; the last one lacks a
\* required field as well.
UnknownBodies ==
    {Body("u1", "g9", 0, 1, T1000, T1100, 100),
     Body("u9", "g1", 0, 1, T1000, T1100, 100),
     Body("u9", "g9", 0, 1, T1000, T1100, 100),
     Body("u9", "g1", 0, 1, T1000, T1100, 0)}

CreateNext ==
    \/ Requests({"c1"}, FormBodies \cup MissingBodies \cup UnknownBodies,
                {Query("g1", 0, 1, T0900, T1100)}, {[status |-> "confirmed"]},
                {"rain"}, {""})
    \/ Tick

CreateSpec == Init /\ [][CreateNext]_vars

(***************************************************************************)
(* PaySpec: one client, its requests one at a time; two bookings that      *)
(* start 90 and 120 minutes after the first instant of the clock, and the  *)
(* payments a confirm may name.                                            *)
(***************************************************************************)
PayBodies ==
    {Body("u1", "g1", 0, 1, T0930, T1000, 100),
     Body("u2", "g1", 0, 1, T1000, T1100, 100)}

\* No payment, a successful one, a failed one, and the id of no payment.
PayRefs == {"", "p1", "p2", "p9"}

PayNext ==
    \/ Requests({"c1"}, PayBodies, {Query("g1", 0, 1, T0900, T1100)},
                {[status |-> "cancelled"]}, {"rain"}, PayRefs)
    \/ Tick

PaySpec == Init /\ [][PayNext]_vars

(***************************************************************************)
(* EditSpec: one client, its requests one at a time; a booking created     *)
(* with notes, a second one next to it, the form's default amount, and the *)
(* edits of the admin page.                                                *)
(***************************************************************************)
\* 09:30-10:30 with notes, 10:30-11:00 without, and the amount the admin
\* form starts with.
EditBodies ==
    {[Body("u1", "g1", 0, 1, T0930, T1030, 100) EXCEPT !.notes = <<"bring bibs">>],
     Body("u2", "g1", 0, 1, T1030, T1100, 100),
     Body("u1", "g1", 0, 1, T1000, T1100, 0)}

\* handleEditBooking's new times, and handleStatusChange's completed.
EditPatches == {[startTime |-> T1000, endTime |-> T1100], [status |-> "completed"]}

EditNext ==
    \/ Requests({"c1"}, EditBodies, {Query("g1", 0, 1, T0900, T1100)}, EditPatches,
                {"rain"}, {""})
    \/ Tick

EditSpec == Init /\ [][EditNext]_vars

(***************************************************************************)
(* ListSpec: one client, its requests one at a time; bookings of two       *)
(* customers, and the two listings over them.                              *)
(***************************************************************************)
D0 == <<48>>
D1 == <<49>>
D2 == <<50>>
D3 == <<51>>

\* The query string of a listing; userId is the path parameter of
\* getUserBookings.
ListQuery(status, type, customerId, page, limit) ==
    [status |-> status, type |-> type, customerId |-> customerId, groundId |-> "",
     startDate |-> 0, endDate |-> 0, page |-> page, limit |-> limit, userId |-> ""]

ListBodies ==
    {Body("u1", "g1", 0, 1, T0930, T1000, 100),
     Body("u2", "g1", 0, 1, T1000, T1030, 100),
     Body("u1", "g2", 0, 2, T1030, T1100, 100)}

ListQueries ==
    {ListQuery("", "", "", <<>>, <<>>),
     ListQuery("", "", "", D1, D1),
     ListQuery("", "", "", D2, D1),
     ListQuery("", "", "", D3, D1),
     ListQuery("", "", "", D1, D2),
     ListQuery("", "", "", D2, D2),
     ListQuery("", "", "", D1, D0),
     ListQuery("", "", "", D0, D1),
     ListQuery("pending", "", "", D1, D1),
     ListQuery("cancelled", "", "u2", <<>>, <<>>),
     ListQuery("", "practice", "", <<>>, <<>>),
     [ListQuery("", "", "", D1, D2) EXCEPT !.groundId = "g1"],
     [ListQuery("", "", "u1", D1, D1) EXCEPT !.startDate = 1, !.endDate = 1]}

ListNext ==
    \/ Requests({"c1"}, ListBodies, {Query("g1", 0, 1, T0900, T1100)},
                {[status |-> "confirmed"]}, {"rain"}, {""})
    \/ \E query \in ListQueries : getBookingsFind("c1", query)
    \/ getBookingsCount("c1")
    \/ \E userId \in Users, query \in ListQueries : getUserBookingsFind("c1", userId, query)
    \/ getUserBookingsCount("c1")

ListSpec == Init /\ [][ListNext]_vars

(***************************************************************************)
(* OrderSpec: the overlap query on every pair of intervals whose ends are  *)
(* drawn from a set of padded times: one booking is stored, with any two   *)
(* of the times, and availability is asked for any two of them.            *)
(***************************************************************************)
OrderTimes == {TimeStr(h, m) : h \in {0, 2, 9, 10, 19, 23}, m \in {0, 5, 59}}

OrderInit ==
    /\ \E s \in OrderTimes, e \in OrderTimes :
          bookings = <<NewBooking(Body("u1", "g1", 0, 1, s, e, 100))>>
    /\ now = Clock0
    /\ pc = [c \in Clients |-> "idle"]
    /\ req = [c \in Clients |-> NoReq]
    /\ res = [c \in Clients |-> NoRes]
    /\ screen = GroundBooking(FALSE, "")
    /\ calls = {}

OrderNext ==
    \/ \E s \in OrderTimes, e \in OrderTimes :
          checkGroundAvailability("c1", Query("g1", 0, 1, s, e))
    \/ Reply("c1")

OrderSpec == OrderInit /\ [][OrderNext]_vars

(***************************************************************************)
(* ScreenSpec: the customer's screen in a browser that may be logged in,   *)
(* and one other client that books 09:30-10:30 on the ground.              *)
(***************************************************************************)
ScreenBodies == {Body("u2", "g1", 0, 1, T0930, T1030, 100)}

ScreenInit ==
    /\ bookings = <<>>
    /\ now = Clock0
    /\ pc = [c \in Clients |-> "idle"]
    /\ req = [c \in Clients |-> NoReq]
    /\ res = [c \in Clients |-> NoRes]
    /\ \E loggedIn \in BOOLEAN, userId \in {"", "u1"} :
          screen = GroundBooking(loggedIn, userId)
    /\ calls = {}

ScreenNext ==
    \/ \E body \in ScreenBodies : createBookingQuery("c1", body)
    \/ createBookingWrite("c1")
    \/ Reply("c1")
    \/ handleBookGround("g1")
    \/ handleBookingInputChange("bookingDate", 1)
    \/ \E value \in {T0930, T1030} : handleBookingInputChange("startTime", value)
    \/ handleBookingInputChange("duration", 60)
    \/ checkAvailability
    \/ \E call \in calls : serve(call)
    \/ \E call \in calls : checkAvailabilityDone(call)
    \/ handleBookingSubmit
    \/ \E call \in calls : handleBookingSubmitDone(call)

ScreenSpec == ScreenInit /\ [][ScreenNext]_vars

(***************************************************************************)
(* The vocabulary of the properties.                                       *)
(***************************************************************************)
\* The request asks for the resource (ground, slot, day) of booking b; an
\* absent slot asks for slot 1.
SameResource(b, q) ==
    /\ b.groundId = q.groundId
    /\ \/ q.groundSlot = 0 /\ b.groundSlot = 1
       \/ q.groundSlot # 0 /\ b.groundSlot = q.groundSlot
    /\ b.bookingDate = DateMs(q.bookingDate)

\* [s1, e1) and [s2, e2) overlap under the half-open rule, on minutes of the day.
Overlap(s1, e1, s2, e2) ==
    /\ MinuteOfDay(s1) < MinuteOfDay(e2)
    /\ MinuteOfDay(s2) < MinuteOfDay(e1)

\* The non-cancelled bookings on the request's resource that overlap it.
LiveOverlaps(store, q) ==
    {k \in 1..Len(store) :
        /\ SameResource(store[k], q)
        /\ store[k].status # "cancelled"
        /\ Overlap(store[k].startTime, store[k].endTime, q.startTime, q.endTime)}

\* The request's interval ends where booking b starts, or starts where it ends.
Touches(b, q) ==
    /\ SameResource(b, q)
    /\ b.status # "cancelled"
    /\ \/ q.endTime = b.startTime
       \/ q.startTime = b.endTime

\* A create request that carries every required field, for a ground and a
\* customer that exist.
WellFormed(body) ==
    /\ body.customerId \in Users
    /\ body.groundId \in Grounds
    /\ body.bookingDate # 0
    /\ body.startTime # <<>>
    /\ body.endTime # <<>>
    /\ body.amount # 0

\* The step in which createBooking runs its overlap query for client c: it
\* either answers the request or goes on to the write.
CreateAnswered(c) == Idle(c) /\ pc'[c] = "reply" /\ res'[c].op = "createBooking"
CreatePassed(c) == Idle(c) /\ pc'[c] = "createBooking"

\* The step in which createBooking, past its overlap query, ends.
CreateWritten(c) == pc[c] = "createBooking" /\ pc'[c] = "reply"

\* The step in which checkGroundAvailability answers client c.
CheckAnswered(c) ==
    Idle(c) /\ pc'[c] = "reply" /\ res'[c].op = "checkGroundAvailability"

(***************************************************************************)
(* C1. No two non-cancelled bookings of one ground, slot and day overlap.  *)
(***************************************************************************)
\* C1: in every reachable state, no two bookings with the same groundId,
\* groundSlot and bookingDate, both with a status other than cancelled, have
\* overlapping [startTime, endTime) intervals.
C1_NoDoubleBooking ==
    \A i, j \in Ids :
        (/\ i < j
         /\ bookings[i].groundId = bookings[j].groundId
         /\ bookings[i].groundSlot = bookings[j].groundSlot
         /\ bookings[i].bookingDate = bookings[j].bookingDate
         /\ bookings[i].status # "cancelled"
         /\ bookings[j].status # "cancelled")
        => ~Overlap(bookings[i].startTime, bookings[i].endTime,
                    bookings[j].startTime, bookings[j].endTime)

(***************************************************************************)
(* C2. A create in conflict is answered 409 and persists nothing.          *)
(***************************************************************************)
\* C2: requests running one at a time, a well-formed create whose interval
\* overlaps a non-cancelled booking on the same ground, slot and day is
\* answered 409 with that booking's time range, type and requester name and
\* the suggestions, and the store is left as it was.
C2_ConflictIs409 ==
    [][\A c \in Clients :
          /\ CreatePassed(c) => LiveOverlaps(bookings, req'[c].body) = {}
          /\ (/\ CreateAnswered(c)
              /\ WellFormed(res'[c].body)
              /\ LiveOverlaps(bookings, res'[c].body) # {})
             => /\ res'[c].code = 409
                /\ bookings' = bookings
                /\ res'[c].data.suggestions = suggestions
                /\ \E k \in LiveOverlaps(bookings, res'[c].body) :
                      res'[c].data.existingBooking =
                          [startTime |-> bookings[k].startTime,
                           endTime |-> bookings[k].endTime,
                           bookingType |-> bookings[k].bookingType,
                           bookedBy |-> <<firstName(bookings[k].customerId), " ",
                                          lastName(bookings[k].customerId)>>]]_vars

(***************************************************************************)
(* C3. Two concurrent creates for overlapping intervals both succeed.      *)
(***************************************************************************)
\* C3: a create that has passed its overlap query is not checked against the
\* store again: its write succeeds exactly when the two clock checks pass,
\* whatever was written since the query, and then adds its booking; so two
\* creates for overlapping intervals that both pass the query before either
\* writes are both stored.
C3_WriteDoesNotRecheck ==
    [][\A c \in Clients :
          CreateWritten(c) =>
             /\ res'[c].code = 201 <=> createBookingClock(req[c].body, now) = Proceed
             /\ res'[c].code = 201 =>
                   /\ Len(bookings') = Len(bookings) + 1
                   /\ bookings'[Len(bookings')].startTime = req[c].body.startTime
                   /\ bookings'[Len(bookings')].endTime = req[c].body.endTime]_vars

\* Two overlapping bookings of one ground, slot and day are stored, neither
\* ever cancelled (cancelling leaves a line in the notes) nor confirmed, and the
\* second of them has just been answered 201.
C3_BothCreated ==
    \E i, j \in Ids : \E c \in Clients :
        /\ i < j
        /\ bookings[i].groundId = bookings[j].groundId
        /\ bookings[i].groundSlot = bookings[j].groundSlot
        /\ bookings[i].bookingDate = bookings[j].bookingDate
        /\ bookings[i].status = "pending" /\ bookings[i].notes = <<>>
        /\ bookings[j].status = "pending" /\ bookings[j].notes = <<>>
        /\ Overlap(bookings[i].startTime, bookings[i].endTime,
                   bookings[j].startTime, bookings[j].endTime)
        /\ pc[c] = "reply"
        /\ res[c].op = "createBooking"
        /\ res[c].code = 201
        /\ res[c].data.id = j

(***************************************************************************)
(* C4. cancelled and completed are terminal.                               *)
(***************************************************************************)
\* C4: no step of a confirm, cancel or update request changes the status of a
\* booking whose status is cancelled or completed.
C4_TerminalStatusStays ==
    [][\A i \in Ids :
          bookings[i].status \in {"cancelled", "completed"}
             => bookings'[i].status = bookings[i].status]_vars

(***************************************************************************)
(* C5. confirmed never returns to pending.                                 *)
(***************************************************************************)
\* C5: no step takes a booking whose status is confirmed to the status pending.
C5_ConfirmedNotPending ==
    [][\A i \in Ids :
          bookings[i].status = "confirmed" => bookings'[i].status # "pending"]_vars

(***************************************************************************)
(* C6. Every stored booking starts before it ends.                         *)
(***************************************************************************)
\* C6: in every reachable state, every stored booking has startTime strictly
\* before endTime.
C6_StartBeforeEnd ==
    \A i \in Ids : MinuteOfDay(bookings[i].startTime) < MinuteOfDay(bookings[i].endTime)

(***************************************************************************)
(* C7. Touching intervals do not conflict.                                 *)
(***************************************************************************)
\* C7: a well-formed create whose interval touches a non-cancelled booking of
\* the same ground, slot and day (its end is the booking's start, or its start
\* the booking's end) and overlaps none passes the overlap query, and is then
\* answered 201 and stored when the clock checks pass.
C7_TouchingIsFree ==
    [][\A c \in Clients :
          /\ (/\ CreateAnswered(c)
              /\ WellFormed(res'[c].body)
              /\ \E k \in Ids : Touches(bookings[k], res'[c].body))
             => LiveOverlaps(bookings, res'[c].body) # {}
          /\ (/\ CreateWritten(c)
              /\ \E k \in Ids : Touches(bookings[k], req[c].body)
              /\ createBookingClock(req[c].body, now) = Proceed)
             => /\ res'[c].code = 201
                /\ bookings' = Append(bookings, bookings'[Len(bookings')])
                /\ bookings'[Len(bookings')].startTime = req[c].body.startTime
                /\ bookings'[Len(bookings')].endTime = req[c].body.endTime
                /\ bookings'[Len(bookings')].status = "pending"]_vars

\* A create has just been answered 201 for a booking that starts where a
\* stored non-cancelled booking of the same resource ends, or ends where it starts.
C7_TouchingCreated ==
    \E j, k \in Ids :
        /\ pc["c1"] = "reply"
        /\ res["c1"].op = "createBooking"
        /\ res["c1"].code = 201
        /\ res["c1"].data.id = j
        /\ k < j
        /\ Touches(bookings[k], QueryOf(res["c1"].body))
        /\ bookings[j].startTime = res["c1"].body.startTime

(***************************************************************************)
(* C8. Cancelled bookings block nothing.                                   *)
(***************************************************************************)
\* C8: when every booking of the requested ground, slot and day that overlaps
\* the requested interval is cancelled, and there is such a booking, an
\* availability check answers available and a well-formed create passes the
\* overlap query; and no availability answer lists a cancelled booking.
C8_CancelledNeverBlocks ==
    [][\A c \in Clients :
          LET Cancelled(q) ==
                  \E k \in Ids :
                      /\ SameResource(bookings[k], q)
                      /\ bookings[k].status = "cancelled"
                      /\ Overlap(bookings[k].startTime, bookings[k].endTime,
                                 q.startTime, q.endTime)
          IN  /\ (/\ CheckAnswered(c)
                  /\ res'[c].code = 200
                  /\ ~res'[c].data.available)
                 => \A e \in res'[c].data.conflicts :
                       bookings[e.bookingId].status # "cancelled"
              /\ (/\ CheckAnswered(c)
                  /\ res'[c].code # 400
                  /\ Cancelled(res'[c].body)
                  /\ LiveOverlaps(bookings, res'[c].body) = {})
                 => /\ res'[c].code = 200
                    /\ res'[c].data.available
              /\ (/\ CreateAnswered(c)
                  /\ WellFormed(res'[c].body)
                  /\ Cancelled(res'[c].body))
                 => LiveOverlaps(bookings, res'[c].body) # {}]_vars

\* A create has just been answered 201 for an interval that overlaps a
\* cancelled booking of the same ground, slot and day.
C8_CreatedOverCancelled ==
    \E j, k \in Ids :
        /\ pc["c1"] = "reply"
        /\ res["c1"].op = "createBooking"
        /\ res["c1"].code = 201
        /\ res["c1"].data.id = j
        /\ k < j
        /\ bookings[k].status = "cancelled"
        /\ SameResource(bookings[k], QueryOf(res["c1"].body))
        /\ Overlap(bookings[k].startTime, bookings[k].endTime,
                   bookings[j].startTime, bookings[j].endTime)

(***************************************************************************)
(* C9. The availability answer is the overlap query's result.              *)
(***************************************************************************)
\* C9: an availability check with all its parameters answers available
\* exactly when no non-cancelled booking of the same ground, slot (1 when
\* absent) and day overlaps the requested interval under the half-open rule,
\* and otherwise lists exactly those bookings.
C9_AvailableIffNoConflict ==
    [][\A c \in Clients :
          (CheckAnswered(c) /\ res'[c].code = 200) =>
             LET live == LiveOverlaps(bookings, res'[c].body)
             IN  /\ res'[c].data.available <=> live = {}
                 /\ ~res'[c].data.available =>
                       {e.bookingId : e \in res'[c].data.conflicts} = live]_vars

\* An availability check that named no slot has just been answered not
\* available, listing a booking of slot 1, while another booking of the same
\* ground and hours is left out of the list.
C9_ConflictListed ==
    \E k, n \in Ids :
        /\ pc["c1"] = "reply"
        /\ res["c1"].op = "checkGroundAvailability"
        /\ res["c1"].code = 200
        /\ ~res["c1"].data.available
        /\ res["c1"].body.groundSlot = 0
        /\ bookings[k].groundSlot = 1
        /\ {e.bookingId : e \in res["c1"].data.conflicts} = {k}
        /\ n # k
        /\ bookings[n].groundId = bookings[k].groundId
        /\ bookings[n].status # "cancelled"
        /\ Overlap(bookings[n].startTime, bookings[n].endTime,
                   res["c1"].body.startTime, res["c1"].body.endTime)

(***************************************************************************)
(* C10. The availability check agrees with createBooking.                  *)
(***************************************************************************)
\* C10: in every reachable state, for every create request of the workload,
\* the availability check for its ground, slot, day and times reports a
\* conflict exactly when createBooking would reject that request as
\* conflicting (409).
C10_CheckAgreesWithCreate ==
    \A body \in AdminBodies \cup {Body("u1", "g1", 0, 1, T0900, T1100, 100)} :
        LET check == checkGroundAvailabilityResponse(bookings, QueryOf(body))
        IN  \A json \in createBookingChecks(bookings, body) :
                json.code = 409 <=> (check.code = 200 /\ ~check.data.available)

(***************************************************************************)
(* C11. What a successful create persists.                                 *)
(***************************************************************************)
\* C11: a create answered 201 has added exactly one booking, whose status is
\* pending whatever status the request carried, whose groundSlot is the
\* request's, or 1 when the request names none, and whose specialRequirements
\* are the request's, or empty when the request names none.
C11_CreatedPending ==
    [][\A c \in Clients :
          (CreateWritten(c) /\ res'[c].code = 201) =>
             LET body == req[c].body
                 b == bookings'[Len(bookings')]
             IN  /\ bookings' = Append(bookings, b)
                 /\ b.status = "pending"
                 /\ body.groundSlot = 0 => b.groundSlot = 1
                 /\ body.groundSlot # 0 => b.groundSlot = body.groundSlot
                 /\ body.specialRequirements = <<>> => b.specialRequirements = <<>>
                 /\ body.specialRequirements # <<>>
                       => b.specialRequirements = body.specialRequirements]_vars

\* A create that asked for status confirmed and named no slot and no
\* requirements has just been answered 201; its booking is pending, on slot 1.
C11_FormCreated ==
    /\ pc["c1"] = "reply"
    /\ res["c1"].op = "createBooking"
    /\ res["c1"].code = 201
    /\ res["c1"].body.status = "confirmed"
    /\ res["c1"].body.groundSlot = 0
    /\ res["c1"].body.specialRequirements = <<>>
    /\ bookings[res["c1"].data.id].status = "pending"
    /\ bookings[res["c1"].data.id].groundSlot = 1
    /\ bookings[res["c1"].data.id].specialRequirements = <<>>

(***************************************************************************)
(* C12. A create that lacks a required field.                              *)
(***************************************************************************)
\* The request names a customer, a ground, a date, a start, an end and an
\* amount.
AllRequiredGiven(body) ==
    /\ body.customerId # ""
    /\ body.groundId # ""
    /\ body.bookingDate # 0
    /\ body.startTime # <<>>
    /\ body.endTime # <<>>
    /\ body.amount # 0

\* C12: a create that lacks any of customerId, groundId, bookingDate,
\* startTime, endTime or amount is answered 400 and leaves the store as it
\* was; no such create goes on to the overlap query and the write.
C12_MissingIs400 ==
    [][\A c \in Clients :
          /\ CreatePassed(c) => AllRequiredGiven(req'[c].body)
          /\ (CreateAnswered(c) /\ ~AllRequiredGiven(res'[c].body))
             => /\ res'[c].code = 400
                /\ res'[c].message = "Missing required fields"
                /\ bookings' = bookings]_vars

\* A create that lacks nothing but its amount has just been answered 400
\* while a booking is stored.
C12_AmountMissing ==
    /\ pc["c1"] = "reply"
    /\ res["c1"].op = "createBooking"
    /\ res["c1"].code = 400
    /\ res["c1"].body.amount = 0
    /\ res["c1"].body.customerId \in Users
    /\ res["c1"].body.groundId \in Grounds
    /\ res["c1"].body.bookingDate # 0
    /\ res["c1"].body.startTime # <<>>
    /\ res["c1"].body.endTime # <<>>
    /\ bookings # <<>>

(***************************************************************************)
(* C13. A create for a ground or a customer that does not exist.           *)
(***************************************************************************)
\* C13: a create with all its required fields whose groundId is the id of no
\* ground, or whose customerId is the id of no user, is answered 404 and
\* leaves the store as it was; no such create goes on to the write.
C13_UnknownIs404 ==
    [][\A c \in Clients :
          /\ CreatePassed(c)
             => /\ req'[c].body.groundId \in Grounds
                /\ req'[c].body.customerId \in Users
          /\ (/\ CreateAnswered(c)
              /\ AllRequiredGiven(res'[c].body)
              /\ \/ res'[c].body.groundId \notin Grounds
                 \/ res'[c].body.customerId \notin Users)
             => /\ res'[c].code = 404
                /\ bookings' = bookings]_vars

\* A create for an existing ground and a customer that does not exist has
\* just been answered 404.
C13_CustomerUnknown ==
    /\ pc["c1"] = "reply"
    /\ res["c1"].op = "createBooking"
    /\ res["c1"].code = 404
    /\ res["c1"].message = "Customer not found"
    /\ res["c1"].body.groundId \in Grounds
    /\ res["c1"].body.customerId \notin Users

(***************************************************************************)
(* C14. The two clock checks of create.                                    *)
(***************************************************************************)
\* The instant a request asks its booking to start at.
RequestedStart(body) ==
    DateMs(body.bookingDate) + MinuteOfDay(body.startTime) * MsPerMinute

ConfirmAnswered(c) == Idle(c) /\ pc'[c] = "reply" /\ res'[c].op = "confirmBooking"
ConfirmPassed(c) == Idle(c) /\ pc'[c] = "confirmBooking"
ConfirmSaved(c) == pc[c] = "confirmBooking" /\ pc'[c] = "reply"

\* cancelBooking answers client c on what it read, goes on to its save, or
\* ends with its save.
CancelAnswered(c) == Idle(c) /\ pc'[c] = "reply" /\ res'[c].op = "cancelBooking"
CancelPassed(c) == Idle(c) /\ pc'[c] = "cancelBooking"
CancelSaved(c) == pc[c] = "cancelBooking" /\ pc'[c] = "reply"

\* The instant a stored booking starts at.
BookingStart(b) == b.bookingDate + MinuteOfDay(b.startTime) * MsPerMinute

(***************************************************************************)
(* C15. A confirm that is turned down.                                     *)
(***************************************************************************)
\* C15: a confirm is answered 404 when its booking does not exist, 404 when it
\* names a payment that does not exist and 400 when it names a payment whose
\* status is not success, and every confirm that is turned down leaves every
\* booking's status and paymentId as they were; no such confirm goes on to
\* the save.
C15_BadPaymentRejected ==
    [][\A c \in Clients :
          /\ ConfirmPassed(c)
             => LET p == req'[c].body.paymentId
                IN  /\ req'[c].body.id \in Ids
                    /\ p # "" => (p \in Payments /\ paymentStatus(p) = "success")
          /\ ConfirmAnswered(c)
             => LET id == res'[c].body.id
                    p == res'[c].body.paymentId
                IN  /\ bookings' = bookings
                    /\ id \notin Ids => res'[c].code = 404
                    /\ (id \in Ids /\ p # "" /\ p \notin Payments)
                       => /\ res'[c].code = 404
                          /\ res'[c].message = "Payment not found"
                    /\ (id \in Ids /\ p \in Payments /\ paymentStatus(p) # "success")
                       => res'[c].code = 400]_vars

\* A confirm that names a failed payment has just been answered 400, and its
\* booking is pending with no payment.
C15_FailedPayment ==
    /\ pc["c1"] = "reply"
    /\ res["c1"].op = "confirmBooking"
    /\ res["c1"].code = 400
    /\ res["c1"].body.paymentId \in Payments
    /\ paymentStatus(res["c1"].body.paymentId) = "failed"
    /\ res["c1"].body.id \in Ids
    /\ bookings[res["c1"].body.id].status = "pending"
    /\ bookings[res["c1"].body.id].paymentId = ""

(***************************************************************************)
(* C16. A confirm that succeeds.                                           *)
(***************************************************************************)
\* C16: requests running one at a time, the save of a confirm is answered 200
\* and leaves its booking confirmed, with the payment the request names, a
\* successful one, as its paymentId, or with the paymentId it had when the
\* request names none; no other booking changes.
C16_ConfirmSets ==
    [][\A c \in Clients :
          ConfirmSaved(c) =>
             LET id == req[c].body.id
                 p == req[c].body.paymentId
             IN  /\ res'[c].code = 200
                 /\ bookings'[id].status = "confirmed"
                 /\ p # "" => (bookings'[id].paymentId = p /\ paymentStatus(p) = "success")
                 /\ p = "" => bookings'[id].paymentId = bookings[id].paymentId
                 /\ \A j \in Ids \ {id} : bookings'[j] = bookings[j]]_vars

\* A confirm that names no payment has just been answered 200 for a booking
\* that keeps the payment an earlier confirm attached.
C16_PaymentKept ==
    /\ pc["c1"] = "reply"
    /\ res["c1"].op = "confirmBooking"
    /\ res["c1"].code = 200
    /\ res["c1"].body.paymentId = ""
    /\ bookings[res["c1"].body.id].status = "confirmed"
    /\ bookings[res["c1"].body.id].paymentId = "p1"

(***************************************************************************)
(* C17. Confirming a confirmed booking.                                    *)
(***************************************************************************)
\* C17: requests running one at a time, a confirm of a booking that is
\* confirmed, naming no payment or the payment the booking has, passes the
\* checks, and its save is answered 200 and leaves the store as it was.
C17_ReconfirmIdempotent ==
    [][\A c \in Clients :
          /\ (/\ ConfirmAnswered(c)
              /\ res'[c].body.id \in Ids
              /\ bookings[res'[c].body.id].status = "confirmed")
             => res'[c].body.paymentId
                   \notin {"", bookings[res'[c].body.id].paymentId}
          /\ (/\ ConfirmSaved(c)
              /\ bookings[req[c].body.id].status = "confirmed"
              /\ req[c].body.paymentId \in {"", bookings[req[c].body.id].paymentId})
             => /\ res'[c].code = 200
                /\ bookings' = bookings]_vars

\* A confirm naming payment p1 has read a booking that is confirmed with
\* payment p1, has passed the checks and is about to save.
C17_SecondConfirm ==
    /\ pc["c1"] = "confirmBooking"
    /\ req["c1"].status = "confirmed"
    /\ req["c1"].paymentId = "p1"
    /\ req["c1"].body.paymentId = "p1"
    /\ bookings[req["c1"].body.id].status = "confirmed"
    /\ bookings[req["c1"].body.id].paymentId = "p1"

(***************************************************************************)
(* C18. A cancel that is turned down.                                      *)
(***************************************************************************)
\* C18: a cancel is answered 404 when its booking does not exist and 400 when
\* its booking is already cancelled, and a cancel that is turned down leaves
\* the store, the booking's status and notes included, as it was; no such
\* cancel goes on to the save.
C18_CancelRejected ==
    [][\A c \in Clients :
          /\ CancelPassed(c)
             => /\ req'[c].body.id \in Ids
                /\ bookings[req'[c].body.id].status # "cancelled"
          /\ CancelAnswered(c)
             => LET id == res'[c].body.id
                IN  /\ bookings' = bookings
                    /\ id \notin Ids => res'[c].code = 404
                    /\ (id \in Ids /\ bookings[id].status = "cancelled")
                       => /\ res'[c].code = 400
                          /\ res'[c].message = "Booking is already cancelled"]_vars

\* A cancel has just been answered 400 for a booking that an earlier cancel
\* had cancelled; its notes hold the reason once.
C18_CancelledTwice ==
    /\ pc["c1"] = "reply"
    /\ res["c1"].op = "cancelBooking"
    /\ res["c1"].code = 400
    /\ res["c1"].body.id \in Ids
    /\ bookings[res["c1"].body.id].status = "cancelled"
    /\ bookings[res["c1"].body.id].notes = <<"Cancellation reason: ", "rain">>

(***************************************************************************)
(* C19. The cutoff of cancel for a confirmed booking.                      *)
(***************************************************************************)
\* C19: a cancel of a confirmed booking is answered 400 and leaves the store
\* as it was when the booking starts less than 2 hours after now, and goes on
\* to its save when the booking starts 2 hours or more after now; the save is
\* answered 200 and leaves the booking cancelled.
C19_ConfirmedCutoff ==
    [][\A c \in Clients :
          /\ (/\ CancelAnswered(c)
              /\ res'[c].body.id \in Ids
              /\ bookings[res'[c].body.id].status = "confirmed")
             => /\ BookingStart(bookings[res'[c].body.id]) - now < 120 * MsPerMinute
                /\ res'[c].code = 400
                /\ res'[c].message
                      = "Cannot cancel booking less than 2 hours before start time"
                /\ bookings' = bookings
          /\ (CancelPassed(c) /\ bookings[req'[c].body.id].status = "confirmed")
             => BookingStart(bookings[req'[c].body.id]) - now >= 120 * MsPerMinute
          /\ CancelSaved(c)
             => /\ res'[c].code = 200
                /\ bookings'[req[c].body.id].status = "cancelled"]_vars

\* A cancel has just been answered 200 for a booking that holds a payment, so
\* that it had been confirmed, and that starts exactly 2 hours after now.
C19_CancelledInTime ==
    /\ pc["c1"] = "reply"
    /\ res["c1"].op = "cancelBooking"
    /\ res["c1"].code = 200
    /\ bookings[res["c1"].body.id].status = "cancelled"
    /\ bookings[res["c1"].body.id].paymentId = "p1"
    /\ now = Clock0
    /\ BookingStart(bookings[res["c1"].body.id]) - now = 120 * MsPerMinute

(***************************************************************************)
(* C20. Cancel of a pending booking.                                       *)
(***************************************************************************)
\* C20: a cancel of a pending booking is never turned down, whatever the
\* time left before its start, and its save is answered 200 and leaves the
\* booking cancelled.
C20_PendingCancels ==
    [][\A c \in Clients :
          /\ (CancelAnswered(c) /\ res'[c].body.id \in Ids)
             => bookings[res'[c].body.id].status # "pending"
          /\ (CancelSaved(c) /\ bookings[req[c].body.id].status = "pending")
             => /\ res'[c].code = 200
                /\ bookings'[req[c].body.id].status = "cancelled"]_vars

\* A cancel has just been answered 200 for the booking of 09:30, which no
\* instant of the clock puts 2 hours ahead, after its start has passed.
C20_CancelledLate ==
    /\ pc["c1"] = "reply"
    /\ res["c1"].op = "cancelBooking"
    /\ res["c1"].code = 200
    /\ bookings[res["c1"].body.id].status = "cancelled"
    /\ bookings[res["c1"].body.id].startTime = T0930
    /\ BookingStart(bookings[res["c1"].body.id]) <= now

(***************************************************************************)
(* The steps of updateBooking.                                             *)
(***************************************************************************)
\* updateBooking answers client c on what it read, goes on to its write, or
\* ends with its write.
UpdateAnswered(c) == Idle(c) /\ pc'[c] = "reply" /\ res'[c].op = "updateBooking"
UpdatePassed(c) == Idle(c) /\ pc'[c] = "updateBooking"
UpdateWritten(c) == pc[c] = "updateBooking" /\ pc'[c] = "reply"

(***************************************************************************)
(* C21. The notes of a cancelled booking.                                  *)
(***************************************************************************)
\* C21: requests running one at a time, the save of a cancel leaves the
\* booking's notes equal to the cancellation reason alone when the notes were
\* empty, and otherwise to the notes it had, a separator, and the
\* cancellation reason.
C21_NotesKept ==
    [][\A c \in Clients :
          CancelSaved(c) =>
             LET id == req[c].body.id
                 before == bookings[id].notes
                 after == bookings'[id].notes
                 line == <<"Cancellation reason: ", req[c].body.reason>>
             IN  /\ res'[c].code = 200
                 /\ before = <<>> => after = line
                 /\ before # <<>>
                    => /\ Len(after) = Len(before) + 1 + Len(line)
                       /\ SubSeq(after, 1, Len(before)) = before
                       /\ after[Len(before) + 1] = "\n"
                       /\ SubSeq(after, Len(before) + 2, Len(after)) = line]_vars

\* A cancel has just been answered 200 for a booking created with notes; the
\* notes are those, a separator, and the reason.
C21_NotesAppended ==
    /\ pc["c1"] = "reply"
    /\ res["c1"].op = "cancelBooking"
    /\ res["c1"].code = 200
    /\ bookings[res["c1"].body.id].status = "cancelled"
    /\ bookings[res["c1"].body.id].notes
          = <<"bring bibs", "\n", "Cancellation reason: ", "rain">>

(***************************************************************************)
(* C22. An update that is turned down.                                     *)
(***************************************************************************)
\* C22: requests running one at a time, an update is answered 404 when its
\* booking does not exist and 400 when its booking is completed or cancelled,
\* and an update that is not answered 200 leaves the store as it was; no
\* such update goes on to the write.
C22_UpdateRejected ==
    [][\A c \in Clients :
          /\ UpdatePassed(c)
             => /\ req'[c].body.id \in Ids
                /\ bookings[req'[c].body.id].status \notin {"completed", "cancelled"}
          /\ UpdateAnswered(c)
             => LET id == res'[c].body.id
                IN  /\ bookings' = bookings
                    /\ id \notin Ids => res'[c].code = 404
                    /\ (id \in Ids /\ bookings[id].status \in {"completed", "cancelled"})
                       => /\ res'[c].code = 400
                          /\ res'[c].message
                                = "Cannot modify completed or cancelled bookings"
          /\ (UpdateWritten(c) /\ res'[c].code # 200) => bookings' = bookings]_vars

\* An update of times has just been answered 400 for a completed booking,
\* which keeps the times it was created with.
C22_CompletedKept ==
    /\ pc["c1"] = "reply"
    /\ res["c1"].op = "updateBooking"
    /\ res["c1"].code = 400
    /\ "startTime" \in DOMAIN res["c1"].body.patch
    /\ res["c1"].body.id \in Ids
    /\ bookings[res["c1"].body.id].status = "completed"
    /\ bookings[res["c1"].body.id].startTime # res["c1"].body.patch.startTime

(***************************************************************************)
(* C25. Update runs no overlap check.                                      *)
(***************************************************************************)
\* C25: the write of an update whose patch the schema accepts is answered 200
\* and gives the booking every field of the patch, whatever other bookings
\* the store holds.
C25_UpdateApplied ==
    [][\A c \in Clients :
          (/\ UpdateWritten(c)
           /\ "status" \in DOMAIN req[c].body.patch
                 => req[c].body.patch.status
                       \in {"pending", "confirmed", "completed", "cancelled"})
          => /\ res'[c].code = 200
             /\ \A f \in DOMAIN req[c].body.patch :
                   bookings'[req[c].body.id][f] = req[c].body.patch[f]
             /\ \A j \in Ids \ {req[c].body.id} : bookings'[j] = bookings[j]]_vars

\* An update of times has just been answered 200, and the booking it moved
\* overlaps another booking of its ground, slot and day; both are pending.
C25_MovedOntoBooking ==
    \E j \in Ids :
        LET id == res["c1"].body.id
        IN  /\ pc["c1"] = "reply"
            /\ res["c1"].op = "updateBooking"
            /\ res["c1"].code = 200
            /\ "startTime" \in DOMAIN res["c1"].body.patch
            /\ j # id
            /\ bookings[id].startTime = res["c1"].body.patch.startTime
            /\ bookings[id].groundId = bookings[j].groundId
            /\ bookings[id].groundSlot = bookings[j].groundSlot
            /\ bookings[id].bookingDate = bookings[j].bookingDate
            /\ bookings[id].status = "pending"
            /\ bookings[j].status = "pending"
            /\ Overlap(bookings[id].startTime, bookings[id].endTime,
                       bookings[j].startTime, bookings[j].endTime)

(***************************************************************************)
(* C26. No request removes a booking.                                      *)
(***************************************************************************)
\* C26: no step removes a booking: every id of the store stays an id of the
\* store, with the customer, ground and day it was created with, and the save
\* of a cancel keeps its booking, with status cancelled.
C26_NothingRemoved ==
    [][/\ \A i \in Ids :
             /\ i <= Len(bookings')
             /\ bookings'[i].groundId = bookings[i].groundId
             /\ bookings'[i].bookingDate = bookings[i].bookingDate
             /\ bookings'[i].customerId = bookings[i].customerId
       /\ \A c \in Clients :
             CancelSaved(c)
                => /\ Len(bookings') = Len(bookings)
                   /\ bookings'[req[c].body.id].status = "cancelled"]_vars

\* Two bookings are stored, the first of them cancelled by a cancel that has
\* just been answered 200.
C26_CancelledKept ==
    /\ pc["c1"] = "reply"
    /\ res["c1"].op = "cancelBooking"
    /\ res["c1"].code = 200
    /\ res["c1"].body.id = 1
    /\ Len(bookings) = 2
    /\ bookings[1].status = "cancelled"
    /\ bookings[2].status # "cancelled"

(***************************************************************************)
(* C27. An amount of 0 is a missing amount.                                *)
(***************************************************************************)
\* C27: a create that names an existing customer and ground, a date, a start
\* and an end, with an amount of 0, is answered 400 with the message of the
\* missing required fields and leaves the store as it was.
C27_ZeroAmountIs400 ==
    [][\A c \in Clients :
          /\ CreatePassed(c) => req'[c].body.amount # 0
          /\ (CreateAnswered(c) /\ res'[c].body.amount = 0)
             => /\ res'[c].code = 400
                /\ res'[c].message = "Missing required fields"
                /\ bookings' = bookings]_vars

\* A create with an amount of 0 for a free interval, 10:00-11:00 on an empty
\* store two hours ahead, has just been answered 400.
C27_FormDefaultRejected ==
    /\ pc["c1"] = "reply"
    /\ res["c1"].op = "createBooking"
    /\ res["c1"].code = 400
    /\ res["c1"].body.amount = 0
    /\ res["c1"].body.customerId \in Users
    /\ res["c1"].body.groundId \in Grounds
    /\ res["c1"].body.startTime = T1000
    /\ bookings = <<>>
    /\ now = Clock0

(***************************************************************************)
(* The listings.                                                           *)
(***************************************************************************)
\* A listing has just answered client c with 200.
Listed(c, op) == pc[c] = op /\ pc'[c] = "reply" /\ res'[c].code = 200

\* The ids of the answer's documents, in the answer's order.
ListedIds(c) == [k \in 1..Len(res'[c].data.data) |-> res'[c].data.data[k].id]

\* The bookings among 1..n that satisfy the conditions of the query; the
\* condition on type is satisfied by all of them or by none.
Filtered(query, typeDropped, n) ==
    {i \in 1..n :
        /\ query.type # "" => typeDropped
        /\ query.userId # "" => bookings[i].customerId = query.userId
        /\ query.status # "" => bookings[i].status = query.status
        /\ (query.userId = "" /\ query.customerId # "")
              => bookings[i].customerId = query.customerId
        /\ (query.userId = "" /\ query.groundId # "")
              => bookings[i].groundId = query.groundId
        /\ (query.userId = "" /\ query.startDate # 0 /\ query.endDate # 0)
              => /\ bookings[i].bookingDate >= DateMs(query.startDate)
                 /\ bookings[i].bookingDate <= DateMs(query.endDate)}

(***************************************************************************)
(* C23. The per-user listing holds the user's bookings only.               *)
(***************************************************************************)
\* C23: every booking in a 200 answer of getUserBookings has the customerId
\* of the path, whatever status, type, customerId, page and limit the query
\* string carries.
C23_OwnBookingsOnly ==
    [][\A c \in Clients :
          Listed(c, "getUserBookings")
             => \A k \in 1..Len(res'[c].data.data) :
                   /\ res'[c].data.data[k].booking.customerId = res'[c].body.userId
                   /\ bookings[res'[c].data.data[k].id].customerId
                         = res'[c].body.userId]_vars

\* The listing of u1 has just answered a query that names customer u2 and
\* status cancelled with a booking, while u2 has a booking too.
C23_OtherCustomerAsked ==
    /\ pc["c1"] = "reply"
    /\ res["c1"].op = "getUserBookings"
    /\ res["c1"].code = 200
    /\ res["c1"].body.userId = "u1"
    /\ res["c1"].body.customerId = "u2"
    /\ Len(res["c1"].data.data) > 0
    /\ \E i \in Ids : bookings[i].customerId = "u2"

(***************************************************************************)
(* C24. Pages.                                                             *)
(***************************************************************************)
\* C24: requests running one at a time, a listing with page p >= 1 and limit
\* L >= 1 over a filtered set of T bookings answers total = T and
\* pages = ceil(T / L), and its documents are those at positions (p-1)*L to
\* p*L-1 of the set, the last created first; the pages 1 to ceil(T / L) hold
\* every booking of the set once.
C24_Pages ==
    [][\A c \in Clients :
          ((Listed(c, "getBookings") \/ Listed(c, "getUserBookings"))
              /\ limitOf(res'[c].body) >= 1)
          => LET query == res'[c].body
                 p == IF query.page = <<>> THEN 1 ELSE parseInt(query.page)
                 L == IF query.limit = <<>> THEN 10 ELSE parseInt(query.limit)
                 set == Filtered(query, req[c].strictQuery, Len(bookings))
                 T == Cardinality(set)
                 \* position of booking i, from 0, the last created first
                 position(i) == Cardinality({j \in set : j > i})
                 ids == ListedIds(c)
                 answer == res'[c].data
             IN  /\ p >= 1
                 /\ answer.pagination.total = T
                 /\ answer.pagination.pages * L >= T
                 /\ (answer.pagination.pages - 1) * L < T \/ T = 0
                 /\ T = 0 => answer.pagination.pages = 0
                 /\ answer.pagination.page = p
                 /\ answer.pagination.limit = L
                 /\ {ids[k] : k \in 1..Len(ids)}
                       = {i \in set : (p - 1) * L <= position(i) /\ position(i) <= p * L - 1}
                 /\ \A k \in 1..Len(ids) : position(ids[k]) = (p - 1) * L + k - 1
                 /\ \A i \in set :
                       Cardinality({q \in 1..answer.pagination.pages :
                                       (q - 1) * L <= position(i)
                                          /\ position(i) <= q * L - 1}) = 1]_vars

\* The second page of limit 1 over two bookings has just been answered: it
\* holds the booking created first, and the answer counts two pages.
C24_SecondPage ==
    /\ pc["c1"] = "reply"
    /\ res["c1"].op = "getBookings"
    /\ res["c1"].code = 200
    /\ res["c1"].body.page = D2
    /\ res["c1"].body.limit = D1
    /\ res["c1"].body.status = ""
    /\ Len(bookings) = 2
    /\ Len(res["c1"].data.data) = 1
    /\ res["c1"].data.data[1].id = 1
    /\ res["c1"].data.pagination.pages = 2

(***************************************************************************)
(* C30. The string order of padded times.                                  *)
(***************************************************************************)
\* C30: on zero-padded HH:MM values the string order is the order of the
\* minutes of the day, so the overlap query of checkGroundAvailability and of
\* createBooking, which compares the times as strings, finds a stored booking
\* exactly when the two half-open intervals overlap on minutes of the day.
C30_StringOrderIsTimeOrder ==
    (pc["c1"] = "reply" /\ res["c1"].op = "checkGroundAvailability")
    => LET q == res["c1"].body
           b == bookings[1]
           times == {q.startTime, q.endTime, b.startTime, b.endTime}
           overlap == /\ MinuteOfDay(b.startTime) < MinuteOfDay(q.endTime)
                      /\ MinuteOfDay(q.startTime) < MinuteOfDay(b.endTime)
       IN  /\ \A t \in times : IsHHMM(t)
           /\ \A t1 \in times, t2 \in times :
                 StrLess(t1, t2) <=> MinuteOfDay(t1) < MinuteOfDay(t2)
           /\ res["c1"].code = 200
           /\ res["c1"].data.available = ~overlap
           /\ \A json \in createBookingChecks(bookings,
                              Body("u2", q.groundId, q.groundSlot, q.bookingDate,
                                   q.startTime, q.endTime, 100)) :
                 json.code = 409 <=> overlap

\* Availability has just been answered for 09:59-10:05 against a stored
\* booking 02:05-10:00: the intervals overlap by one minute, and the ends
\* differ in the first character of their strings.
C30_OverlapAcrossTen ==
    /\ pc["c1"] = "reply"
    /\ res["c1"].op = "checkGroundAvailability"
    /\ res["c1"].body.startTime = TimeStr(9, 59)
    /\ res["c1"].body.endTime = TimeStr(10, 5)
    /\ bookings[1].startTime = TimeStr(2, 5)
    /\ bookings[1].endTime = TimeStr(10, 0)
    /\ res["c1"].data.available = FALSE

(***************************************************************************)
(* The customer's screen.                                                  *)
(***************************************************************************)
\* The continuation of call runs in this step, on the mounted component.
Continued(call, kind) ==
    /\ call \in calls
    /\ call.kind = kind
    /\ call.stage \in {"answered", "failed"}
    /\ call \notin calls'
    /\ screen.page = "booking"

\* The sign of the message the server's answer for the form's inputs would
\* give now.
SignNow(sc) ==
    LET json == checkGroundAvailabilityResponse(bookings, params(sc))
    IN  IF json.code = 200 /\ json.data.available THEN "ok" ELSE "no"

(***************************************************************************)
(* C28. The availability message and the latest inputs.                    *)
(***************************************************************************)
\* C28: when the continuation of an availability check leaves a message on
\* the screen, with no other check in flight and no debounce timer pending,
\* the check was made for the ground, date, start and duration the form
\* holds, or its message is the one the form's inputs would get.
C28_MessageOfLatestInputs ==
    [][\A call \in calls :
          (/\ Continued(call, "check")
           /\ \A other \in calls' : other.kind # "check"
           /\ ~screen'.debounceTimer
           /\ screen'.availabilityMessage # NoMessage)
          => \/ call.query = params(screen')
             \/ screen'.availabilityMessage.sign = SignNow(screen')]_vars

(***************************************************************************)
(* C29. Submit and the payment page.                                       *)
(***************************************************************************)
\* C29: the screen goes to the payment page only in the continuation of a
\* submit's own availability request that was answered with success and
\* available, for a user who is logged in and has an id; a submit that ends
\* otherwise stays on the screen and shows an error; and bookingLoading is
\* false when a submit ends.
C29_SubmitOutcome ==
    [][/\ (screen.page = "booking" /\ screen'.page = "payment")
          => \E call \in calls :
                /\ Continued(call, "submit")
                /\ call.stage = "answered"
                /\ call.success
                /\ call.available
                /\ screen.loggedIn
                /\ screen.userId # ""
                /\ screen'.payment.customerId = screen.userId
                /\ screen'.payment.startTime = call.query.startTime
       /\ \A call \in calls :
             Continued(call, "submit")
                => /\ ~screen'.bookingLoading
                   /\ (call.stage = "failed" \/ ~call.success \/ ~call.available)
                         => /\ screen'.page = "booking"
                            /\ screen'.payment = NoPayment
                            /\ screen'.error # ""
       /\ (handleBookingSubmit /\ ~(screen.loggedIn /\ screen.userId # ""))
             => /\ calls' = calls
                /\ screen'.page = "booking"
                /\ screen'.error # ""
                /\ ~screen'.bookingLoading
       /\ \A call \in calls' \ calls :
             call.kind = "submit" => screen.loggedIn /\ call.userId # ""]_vars

\* The screen is on the payment page with the booking of u1 for 10:30 on g1,
\* while the ground holds the 09:30-10:30 booking of another customer.
C29_WentToPayment ==
    /\ screen.page = "payment"
    /\ screen.payment.customerId = "u1"
    /\ screen.payment.groundId = "g1"
    /\ screen.payment.startTime = T1030
    /\ ~screen.bookingLoading
    /\ Len(bookings) = 1

====
